---------------------------- MODULE Spec2Model ----------------------------
(***************************************************************************)
(* Model of the two batch tools of the repository:                         *)
(*   src/tools/gen-html.py   the HTML Generator  (data/*.json ->            *)
(*                           templates/<subject>.html)                      *)
(*   src/update_links.py     the Link Repairer   (templates/index.html      *)
(*                           against the files under static/)               *)
(* Text is modelled by strings, character for character; Python's string   *)
(* methods, the regular expressions and glob are operators computed on      *)
(* them.  The input domain is ASCII text.                                   *)
(***************************************************************************)
EXTENDS Integers, Sequences, FiniteSets, TLC

(***************************************************************************)
(* Bounds of the model.                                                    *)
(***************************************************************************)
MaxFiles == 3
MaxHrefs == 2
MaxRepairerRuns == 2
MaxGeneratorRuns == 2
MaxFaults == 1
MaxStaticFiles == 3

(***************************************************************************)
(* Python str primitives.                                                  *)
(***************************************************************************)
Char(s, i) == SubSeq(s, i, i)

Min(S) == CHOOSE i \in S : \A j \in S : i <= j

\* 1-based position of character c in the table tbl, 0 when absent
CharIndex(c, tbl) ==
    LET hits == {i \in 1..Len(tbl) : Char(tbl, i) = c}
    IN  IF hits = {} THEN 0 ELSE Min(hits)

AsciiLow == " !\"#$%&'()*+,-./0123456789:;<=>?@ABCDEFGHIJKLMNOPQRSTUVWXYZ[\\]^_"
AsciiHigh == "abcdefghijklmnopqrstuvwxyz{|}~"
LowerAlpha == "abcdefghijklmnopqrstuvwxyz"
UpperAlpha == "ABCDEFGHIJKLMNOPQRSTUVWXYZ"
Digits == "0123456789"
HexDigits == "0123456789ABCDEF"

\* ord(c) for printable ASCII and the ASCII white space
Ord(c) ==
    IF CharIndex(c, AsciiLow) > 0 THEN 31 + CharIndex(c, AsciiLow)
    ELSE IF CharIndex(c, AsciiHigh) > 0 THEN 96 + CharIndex(c, AsciiHigh)
    ELSE IF c = "\t" THEN 9
    ELSE IF c = "\n" THEN 10
    ELSE IF c = "\f" THEN 12
    ELSE IF c = "\r" THEN 13
    ELSE 0

IsDigit(c) == CharIndex(c, Digits) > 0
Whitespace == " \t\n\r\f"
IsAlpha(c) == CharIndex(c, LowerAlpha) > 0 \/ CharIndex(c, UpperAlpha) > 0

StartsWith(s, p) == Len(p) <= Len(s) /\ SubSeq(s, 1, Len(p)) = p
EndsWith(s, p) == Len(p) <= Len(s) /\ SubSeq(s, Len(s) - Len(p) + 1, Len(s)) = p

\* str.find(sub, from): least position >= from (1-based) where sub occurs, 0 if none
Find(s, sub, from) ==
    LET hits == {i \in from..(Len(s) - Len(sub) + 1) :
                    SubSeq(s, i, i + Len(sub) - 1) = sub}
    IN  IF hits = {} THEN 0 ELSE Min(hits)

\* str.rfind(sub): greatest position where sub occurs, 0 if none
RFind(s, sub) ==
    LET hits == {i \in 1..(Len(s) - Len(sub) + 1) :
                    SubSeq(s, i, i + Len(sub) - 1) = sub}
    IN  IF hits = {} THEN 0 ELSE CHOOSE i \in hits : \A j \in hits : j <= i

Contains(s, sub) == Find(s, sub, 1) > 0

\* str.replace(old, new) for a non-empty old: every non-overlapping occurrence,
\* left to right
RECURSIVE Replace(_, _, _)
Replace(s, old, new) ==
    LET i == Find(s, old, 1)
    IN  IF i = 0 THEN s
        ELSE SubSeq(s, 1, i - 1) \o new
             \o Replace(SubSeq(s, i + Len(old), Len(s)), old, new)

\* str.replace(old, new, 1): the first occurrence only
ReplaceFirst(s, old, new) ==
    LET i == Find(s, old, 1)
    IN  IF i = 0 THEN s
        ELSE SubSeq(s, 1, i - 1) \o new \o SubSeq(s, i + Len(old), Len(s))

\* str.split(sep) for a one-character sep: a tuple of strings
RECURSIVE Split(_, _)
Split(s, sep) ==
    LET i == Find(s, sep, 1)
    IN  IF i = 0 THEN <<s>>
        ELSE <<SubSeq(s, 1, i - 1)>> \o Split(SubSeq(s, i + 1, Len(s)), sep)

\* sep.join(parts)
RECURSIVE Join(_, _)
Join(parts, sep) ==
    IF Len(parts) = 0 THEN ""
    ELSE IF Len(parts) = 1 THEN parts[1]
    ELSE parts[1] \o sep \o Join(Tail(parts), sep)

RECURSIVE MapChars(_, _, _)
MapChars(s, from, to) ==
    IF s = "" THEN ""
    ELSE LET c == Char(s, 1)
             k == CharIndex(c, from)
         IN  (IF k > 0 THEN Char(to, k) ELSE c)
             \o MapChars(SubSeq(s, 2, Len(s)), from, to)

Lower(s) == MapChars(s, UpperAlpha, LowerAlpha)
Upper(s) == MapChars(s, LowerAlpha, UpperAlpha)

\* str.title(): a letter is upper-cased after a non-letter, lower-cased after a letter
RECURSIVE TitleFrom(_, _)
TitleFrom(s, prevCased) ==
    IF s = "" THEN ""
    ELSE LET c == Char(s, 1)
         IN  (IF IsAlpha(c) THEN (IF prevCased THEN Lower(c) ELSE Upper(c)) ELSE c)
             \o TitleFrom(SubSeq(s, 2, Len(s)), IsAlpha(c))

Title(s) == TitleFrom(s, FALSE)

\* str(n) for a natural number
RECURSIVE IntToStr(_)
IntToStr(n) ==
    IF n < 10 THEN Char(Digits, n + 1)
    ELSE IntToStr(n \div 10) \o Char(Digits, (n % 10) + 1)

\* int(s) for a string of decimal digits
RECURSIVE StrToInt(_)
StrToInt(s) ==
    IF s = "" THEN 0
    ELSE 10 * StrToInt(SubSeq(s, 1, Len(s) - 1))
         + (CharIndex(Char(s, Len(s)), Digits) - 1)

\* a < b for Python str: by code point, a proper prefix first
RECURSIVE StrLess(_, _)
StrLess(a, b) ==
    IF b = "" THEN FALSE
    ELSE IF a = "" THEN TRUE
    ELSE IF Char(a, 1) = Char(b, 1)
         THEN StrLess(SubSeq(a, 2, Len(a)), SubSeq(b, 2, Len(b)))
         ELSE Ord(Char(a, 1)) < Ord(Char(b, 1))


(***************************************************************************)
(* gen-html.py: pure functions.                                            *)
(* A JSON string value is a string; a key that is absent, null or empty is *)
(* "" (the code reads every such key through `.get(k) or ...`, or through   *)
(* `not filename`, which treat the three alike).                           *)
(***************************************************************************)
Sentinel == 1000000000

svg ==
    "<svg width=\"1em\" height=\"1em\" viewBox=\"0 0 24 30\" fill=\"currentColor\" "
    \o "style=\"vertical-align:middle; margin-left: -0.25em\">"
    \o "<path class=\"cls-1\" d=\"m21,12v6c0,1.6543-1.3457,3-3,3H6c-1.6543,0-3-1.3457-3-3V6c0-1.6543,1.3457-3,3-3h6c.55273,0,1,.44775,1,1s-.44727,1-1,1h-6c-.55176,0-1,.44873-1,1v12c0,.55127.44824,1,1,1h12c.55176,0,1-.44873,1-1v-6c0-.55225.44727-1,1-1s1,.44775,1,1Zm-1-9h-4c-.55273,0-1,.44775-1,1s.44727,1,1,1h1.58594l-9.29297,9.29297c-.39062.39062-.39062,1.02344,0,1.41406.19531.19531.45117.29297.70703.29297s.51172-.09766.70703-.29297l9.29297-9.29297v1.58594c0,.55225.44727,1,1,1s1-.44775,1-1v-4c0-.55225-.44727-1-1-1Z\"/>"
    \o "</svg>"


esc(s) == Replace(Replace(Replace(s, "&", "&amp;"), "<", "&lt;"), ">", "&gt;")

\* urllib.parse.quote(s, safe=''): letters, digits and "_.-~" are kept, every
\* other (ASCII) character becomes %XX, upper-case hex
RECURSIVE quote(_)
quote(s) ==
    IF s = "" THEN ""
    ELSE LET c == Char(s, 1)
             n == Ord(c)
         IN  (IF IsAlpha(c) \/ IsDigit(c) \/ c \in {"_", ".", "-", "~"}
              THEN c
              ELSE "%" \o Char(HexDigits, (n \div 16) + 1)
                       \o Char(HexDigits, (n % 16) + 1))
             \o quote(SubSeq(s, 2, Len(s)))

\* the least j >= i with s[j] outside the characters of cls (Len(s)+1 when the run reaches the end)
RECURSIVE SpanEnd(_, _, _)
SpanEnd(s, i, cls) ==
    IF i <= Len(s) /\ CharIndex(Char(s, i), cls) > 0 THEN SpanEnd(s, i + 1, cls) ELSE i

\* re.match(r'^\s*0*([1-9]\d*|0)', filename): group(1), or "" when there is no match
LeadingGroup(filename) ==
    LET i == SpanEnd(filename, 1, Whitespace)
        z == SpanEnd(filename, i, "0")
        e == SpanEnd(filename, z, Digits)
    IN  IF e > z THEN SubSeq(filename, z, e - 1)
        ELSE IF z > i THEN "0"
        ELSE ""

\* re.search(r'(\d+)', filename): group(1), or "" when there is no match
FirstDigitRun(filename) ==
    LET hits == {i \in 1..Len(filename) : IsDigit(Char(filename, i))}
    IN  IF hits = {} THEN ""
        ELSE SubSeq(filename, Min(hits), SpanEnd(filename, Min(hits), Digits) - 1)

extract_leading_number_nofallback(filename) ==
    IF filename = "" THEN Sentinel
    ELSE IF LeadingGroup(filename) # "" THEN StrToInt(LeadingGroup(filename))
    ELSE Sentinel

extract_leading_number(filename) ==
    IF filename = "" THEN Sentinel
    ELSE IF LeadingGroup(filename) # "" THEN StrToInt(LeadingGroup(filename))
    ELSE IF FirstDigitRun(filename) # "" THEN StrToInt(FirstDigitRun(filename))
    ELSE Sentinel

\* the sort key of line 92, compared as Python compares tuples
KeyLess(f, g) ==
    LET a == extract_leading_number(f.filename)
        b == extract_leading_number(g.filename)
    IN  a < b \/ (a = b /\ StrLess(f.filename, g.filename))

\* sorted() is stable: an element goes after every element not greater than it
RECURSIVE InsertSorted(_, _)
InsertSorted(x, sorted) ==
    IF sorted = <<>> THEN <<x>>
    ELSE IF KeyLess(x, Head(sorted)) THEN <<x>> \o sorted
    ELSE <<Head(sorted)>> \o InsertSorted(x, Tail(sorted))

RECURSIVE files_sorted(_)
files_sorted(files) ==
    IF files = <<>> THEN <<>>
    ELSE InsertSorted(files[Len(files)], files_sorted(SubSeq(files, 1, Len(files) - 1)))

link_text(file) ==
    IF file.linkText # "" THEN file.linkText
    ELSE IF file.linkTitle # "" THEN file.linkTitle
    ELSE IF file.title # "" THEN file.title
    ELSE file.filename

\* urllib.parse.quote(s) with its default safe='/'
quote_keep_slash(s) == Replace(quote(s), "%2F", "/")

viewer_href_default_safe(file) ==
    "/pdf-viewer/?file=" \o quote_keep_slash(file.url)
    \o (IF link_text(file) # "" THEN "&title=" \o quote_keep_slash(link_text(file)) ELSE "")

viewer_href(file) ==
    "/pdf-viewer/?file=" \o quote(file.url)
    \o (IF link_text(file) # "" THEN "&title=" \o quote(link_text(file)) ELSE "")

\* line 101: the list item of one file
FileLine(file) ==
    "                <li><a href=\"" \o esc(viewer_href(file)) \o "\">"
    \o esc(link_text(file)) \o "</a></li>"

\* lines 94-101: the items of a group, in files_sorted order
FileLines(files) ==
    LET fs == files_sorted(files)
    IN  [i \in 1..Len(fs) |-> FileLine(fs[i])]

SUBJ_DISPLAY_MAP(subj) ==
    CASE subj = "wd" -> "Web Design"
      [] subj = "pce" -> "Professional Communication and Ethics"
      [] subj = "cfp" -> "Computational Foundation with Python"
      [] subj = "mfca" -> "Mathematical Foundation for Computer Applications"
      [] subj = "ciep" -> "Constitutional Law, Intellectual Property, Ethics"
      [] subj = "mp" -> "Macro Programming"
      [] OTHER -> Title(Replace(subj, "-", " "))

\* str(v) of a JSON scalar: [t |-> "int", v |-> n] or [t |-> "str", v |-> s]
PyStr(x) == IF x.t = "int" THEN IntToStr(x.v) ELSE x.v

\* lines 85-103: one group
GroupParts(group) ==
    << "            <details>",
       "              <summary>" \o esc(PyStr(group.type)) \o "</summary>",
       "              <ul>" >>
    \o FileLines(group.files)
    \o << "              </ul>",
          "            </details>" >>

RECURSIVE GroupsParts(_)
GroupsParts(groups) ==
    IF groups = <<>> THEN <<>>
    ELSE GroupParts(Head(groups)) \o GroupsParts(Tail(groups))

\* lines 78-107: one unit
UnitParts(unit) ==
    << "    <li>",
       "      <details>",
       "        <summary>Unit-" \o esc(PyStr(unit.unit)) \o "</summary>",
       "        <ul>",
       "          <li>" >>
    \o GroupsParts(unit.groups)
    \o << "          </li>",
          "        </ul>",
          "      </details>",
          "    </li>" >>

RECURSIVE UnitsParts(_)
UnitsParts(units) ==
    IF units = <<>> THEN <<>>
    ELSE UnitParts(Head(units)) \o UnitsParts(Tail(units))

\* lines 65-112: the content of templates/<subj>.html for a JSON object
RenderSubject(subj, data) ==
    Join( << "<!-- generated from data/" \o subj \o ".json -->",
             "<details>",
             "  <summary>",
             "    " \o esc(SUBJ_DISPLAY_MAP(subj)),
             "    <sup><a href=\"/sem-1/" \o esc(subj)
                 \o "/\" style=\"border-bottom: none;\">" \o svg \o "</a></sup>",
             "  </summary>",
             "  <ul>" >>
          \o UnitsParts(data.units)
          \o << "  </ul>",
                "</details>" >>,
          "\n") \o "\n"

\* line 65: data.get raises AttributeError unless the JSON value is an object
RenderRaises(data) == data.kind # "object"

\* line 111
OutPath(subj) == "templates/" \o subj \o ".html"

\* line 115: the names tempfile.mkstemp can create for a subject
TmpNames(subj) ==
    { "templates/." \o subj \o "." \o IntToStr(10000000 + i) \o ".tmp" :
        i \in 1..(MaxFaults + 1) }

\* lines 115-117: the file the content is written to
WriteTarget_destination(tmp, out) == out

WriteTarget(tmp, out) == tmp

\* line 120: filecmp.cmp(tmp_path, out_path, shallow=False)
FileCmp_size_only(a, b) == Len(a) = Len(b)

FileCmp_never_equal(a, b) == FALSE

FileCmp(a, b) == a = b

\* a file system as a function from the names of its files to their contents
FsWrite(fs, name, text) ==
    [n \in DOMAIN fs \cup {name} |-> IF n = name THEN text ELSE fs[n]]
FsRemove(fs, name) == [n \in DOMAIN fs \ {name} |-> fs[n]]
\* os.replace(src, dst)
FsReplace(fs, src, dst) ==
    [n \in (DOMAIN fs \ {src}) \cup {dst} |-> IF n = dst THEN fs[src] ELSE fs[n]]

(***************************************************************************)
(* update_links.py: the working directory, os.path and glob.               *)
(* The working directory holds static/ (which exists, possibly empty) and  *)
(* templates/index.html.  The tree under static/ is the set of its regular *)
(* files, each named by its path relative to static/; a directory exists   *)
(* when a file lies below it.  There are no symbolic links.  Nothing that   *)
(* lies outside the working directory is found, and absolute paths are not *)
(* followed (every path the script builds starts with "static/").          *)
(***************************************************************************)
NonEmpty(x) == x # ""

\* the components a path names once resolved: empty components and '.' drop
\* out, '..' cancels the component before it (and stays when there is none);
\* the working directory itself is <<>>
RECURSIVE Normalize(_, _)
Normalize(raw, acc) ==
    IF raw = <<>> THEN acc
    ELSE IF Head(raw) = "" \/ Head(raw) = "." THEN Normalize(Tail(raw), acc)
    ELSE IF Head(raw) = ".." /\ acc # <<>> /\ acc[Len(acc)] # ".."
         THEN Normalize(Tail(raw), SubSeq(acc, 1, Len(acc) - 1))
    ELSE Normalize(Tail(raw), Append(acc, Head(raw)))

Comps(p) == Normalize(Split(p, "/"), <<>>)

IsPrefixSeq(a, b) == Len(a) <= Len(b) /\ SubSeq(b, 1, Len(a)) = a

\* the regular files of the working directory, as component lists
TreeFiles(static) ==
    {<<"static">> \o Comps(f) : f \in static} \cup {<<"templates", "index.html">>}

\* files is TreeFiles(static) in the four operators below
TreeIsFile(files, comps) == comps \in files

TreeIsDir(files, comps) ==
    \/ comps = <<>>
    \/ comps = <<"static">>
    \/ comps # <<>> /\ \A i \in 1..Len(comps) : comps[i] = ".."
    \/ \E f \in files : Len(f) > Len(comps) /\ IsPrefixSeq(comps, f)

TreeListDir(files, comps) ==
    {f[Len(comps) + 1] : f \in {g \in files : Len(g) > Len(comps) /\ IsPrefixSeq(comps, g)}}
    \cup (IF comps = <<>> THEN {"static"} ELSE {})

\* one step of the kernel's path walk, over the component c: before and upto
\* are the resolved components without and with c, last says c ends the path
ResolvesStep(files, c, last, before, upto) ==
    IF c = ""
    THEN last => TreeIsDir(files, before)
    ELSE /\ TreeIsDir(files, before)
         /\ (TreeIsFile(files, upto) \/ TreeIsDir(files, upto))

\* the kernel's path walk over raw, the '/'-separated pieces of path: every
\* component, '.' and '..' included, is looked up in a directory that exists;
\* a trailing slash asks for a directory
Resolves(files, path, raw) ==
    /\ path # ""
    /\ ~StartsWith(path, "/")
    /\ \A i \in 1..Len(raw) :
          ResolvesStep(files, raw[i], i = Len(raw),
                       Normalize(SubSeq(raw, 1, i - 1), <<>>),
                       Normalize(SubSeq(raw, 1, i), <<>>))

\* os.path.exists / os.path.isdir of a path relative to the working directory
PathExists(static, path) == Resolves(TreeFiles(static), path, Split(path, "/"))

PathIsDir(static, path) ==
    PathExists(static, path) /\ TreeIsDir(TreeFiles(static), Comps(path))

\* os.listdir(path): it raises (NotADirectoryError, FileNotFoundError) unless
\* path is a directory
ListDir(static, path) ==
    IF PathIsDir(static, path)
    THEN [raises |-> FALSE, names |-> TreeListDir(TreeFiles(static), Comps(path))]
    ELSE [raises |-> TRUE, names |-> {}]

\* glob._listdir(dirname): the working directory for '', and nothing when the
\* listing raises OSError
GlobListDir(static, dirname) == ListDir(static, IF dirname = "" THEN "." ELSE dirname).names

AllSlashes(s) == \A i \in 1..Len(s) : Char(s, i) = "/"

RECURSIVE RStripSlashes(_)
RStripSlashes(s) ==
    IF s # "" /\ Char(s, Len(s)) = "/" THEN RStripSlashes(SubSeq(s, 1, Len(s) - 1)) ELSE s

\* posixpath.split(p) = <<head, tail>>
PathSplit(p) ==
    LET r == RFind(p, "/")
        head == SubSeq(p, 1, r)
    IN  << IF head # "" /\ ~AllSlashes(head) THEN RStripSlashes(head) ELSE head,
           SubSeq(p, r + 1, Len(p)) >>

\* posixpath.dirname(p)
Dirname(p) == PathSplit(p)[1]

\* posixpath.join(a, b) for a relative b
PathJoin(a, b) ==
    IF a = "" \/ EndsWith(a, "/") THEN a \o b ELSE a \o "/" \o b

\* fnmatch.translate, '[': the position in rest (the text after the '[') of the
\* ']' that closes the set, 0 when the '[' is not closed
ClassClose(rest) ==
    LET a == IF StartsWith(rest, "!") THEN 2 ELSE 1
        b == IF a <= Len(rest) /\ Char(rest, a) = "]" THEN a + 1 ELSE a
    IN  Find(rest, "]", b)

\* the chunks the set is cut into at its range hyphens: chunks.append(pat[i:k]),
\* i = k+1, k = k+3
RECURSIVE ClassSplit(_, _, _)
ClassSplit(stuff, i, from) ==
    LET k == Find(stuff, "-", from)
    IN  IF k = 0 THEN <<SubSeq(stuff, i, Len(stuff))>>
        ELSE <<SubSeq(stuff, i, k - 1)>> \o ClassSplit(stuff, k + 1, k + 3)

\* "Remove empty ranges": for k from the last chunk down, a range whose lower
\* end is above its upper end is deleted with both its ends
RECURSIVE ClassDropEmpty(_, _)
ClassDropEmpty(chunks, k) ==
    IF k < 2 THEN chunks
    ELSE LET lo == chunks[k - 1]
             hi == chunks[k]
         IN  IF Ord(Char(lo, Len(lo))) > Ord(Char(hi, 1))
             THEN ClassDropEmpty(
                     SubSeq(chunks, 1, k - 2)
                     \o <<SubSeq(lo, 1, Len(lo) - 1) \o SubSeq(hi, 2, Len(hi))>>
                     \o SubSeq(chunks, k + 1, Len(chunks)), k - 1)
             ELSE ClassDropEmpty(chunks, k - 1)

\* "if len(chunks[-1]) == 0: del chunks[-1]; chunks[-1] += '-'"
ClassTail(cut) ==
    IF cut[Len(cut)] = ""
    THEN SubSeq(cut, 1, Len(cut) - 2) \o <<cut[Len(cut) - 1] \o "-">>
    ELSE cut

ClassDropAll(all) == ClassDropEmpty(all, Len(all))

ClassChunks(stuff) ==
    IF ~Contains(stuff, "-") THEN <<stuff>>
    ELSE ClassDropAll(ClassTail(ClassSplit(stuff, 1, IF StartsWith(stuff, "!") THEN 3 ELSE 2)))

\* whether the character c matches the set [stuff]: a chunk's characters stand
\* for themselves, two neighbouring chunks make a range from the last character
\* of the first to the first character of the second; a leading '!' negates
ClassListed(c, chunks, neg) ==
    \/ \E k \in 1..Len(chunks) :
         \E i \in (IF neg /\ k = 1 THEN 2 ELSE 1)..Len(chunks[k]) :
            Char(chunks[k], i) = c
    \/ \E k \in 2..Len(chunks) :
         /\ Len(chunks[k - 1]) >= (IF neg /\ k = 2 THEN 2 ELSE 1)
         /\ Ord(Char(chunks[k - 1], Len(chunks[k - 1]))) <= Ord(c)
         /\ Ord(c) <= Ord(Char(chunks[k], 1))

ClassMatchChunks(c, chunks, text) ==
    IF text = "" THEN FALSE
    ELSE IF text = "!" THEN TRUE
    ELSE IF StartsWith(text, "!") THEN ~ClassListed(c, chunks, TRUE)
    ELSE ClassListed(c, chunks, FALSE)

ClassMatchText(c, chunks) == ClassMatchChunks(c, chunks, Join(chunks, "-"))

ClassMatch(c, stuff) == ClassMatchText(c, ClassChunks(stuff))

\* fnmatch.fnmatchcase(name, pat): '*', '?', '[seq]' and '[!seq]'
RECURSIVE Fnmatch(_, _)
\* the pattern pat = c rest against name; j is ClassClose(rest)
FnmatchHead(name, pat, c, rest, j) ==
    IF c = "*"
    THEN \/ Fnmatch(name, rest)
         \/ name # "" /\ Fnmatch(SubSeq(name, 2, Len(name)), pat)
    ELSE IF c = "?"
    THEN name # "" /\ Fnmatch(SubSeq(name, 2, Len(name)), rest)
    ELSE IF c = "[" /\ j > 0
    THEN /\ name # ""
         /\ ClassMatch(Char(name, 1), SubSeq(rest, 1, j - 1))
         /\ Fnmatch(SubSeq(name, 2, Len(name)), SubSeq(rest, j + 1, Len(rest)))
    ELSE /\ name # ""
         /\ Char(name, 1) = c
         /\ Fnmatch(SubSeq(name, 2, Len(name)), rest)

Fnmatch(name, pat) ==
    IF pat = "" THEN name = ""
    ELSE FnmatchHead(name, pat, Char(pat, 1), SubSeq(pat, 2, Len(pat)),
                     ClassClose(SubSeq(pat, 2, Len(pat))))

\* glob.has_magic
HasMagic(s) == Contains(s, "*") \/ Contains(s, "?") \/ Contains(s, "[")

\* glob._glob1: the entries of dirname matching pattern; names starting with '.'
\* match only a pattern that starts with '.'
Glob1(static, dirname, pattern) ==
    {n \in GlobListDir(static, dirname) :
        /\ (StartsWith(pattern, ".") \/ ~StartsWith(n, "."))
        /\ Fnmatch(n, pattern)}

\* glob._glob0: a literal basename
Glob0(static, dirname, basename) ==
    IF basename = ""
    THEN (IF PathIsDir(static, dirname) THEN {""} ELSE {})
    ELSE (IF PathExists(static, PathJoin(dirname, basename)) THEN {basename} ELSE {})

\* glob.glob(pathname), as the set of its results (their order is the
\* directory-listing order, which the file system decides)
RECURSIVE Glob(_, _)
\* glob._iglob for a pathname with magic, split into dirname and basename: an
\* empty dirname lists the working directory and joins nothing to the names
GlobIn(static, pathname, dirname, basename) ==
    UNION { { PathJoin(d, n) :
                n \in IF HasMagic(basename)
                      THEN Glob1(static, d, basename)
                      ELSE Glob0(static, d, basename) } :
            d \in IF dirname # "" /\ dirname # pathname /\ HasMagic(dirname)
                  THEN Glob(static, dirname) ELSE {dirname} }

Glob(static, pathname) ==
    IF ~HasMagic(pathname)
    THEN (IF PathExists(static, pathname) THEN {pathname} ELSE {})
    ELSE GlobIn(static, pathname, PathSplit(pathname)[1], PathSplit(pathname)[2])

(***************************************************************************)
(* update_links.py: find_new_file and update_html_file.                    *)
(* None is modelled as "": find_new_file never returns an empty string,    *)
(* and line 78 (`if new_path`) treats the two alike.  An exception that    *)
(* leaves find_new_file is the value NotADirectoryError, which is no path   *)
(* the function returns (those end in ".pdf").                              *)
(***************************************************************************)
None == ""
NotADirectoryError == "NotADirectoryError"
Marker == "UQ25"

\* lines 12-16: the parts before the first one that starts with the marker
RECURSIVE BaseParts(_)
BaseParts(parts) ==
    IF parts = <<>> \/ StartsWith(Head(parts), Marker) THEN <<>>
    ELSE <<Head(parts)>> \o BaseParts(Tail(parts))

\* lines 20-29
GuessSubject(old_filename) ==
    LET low == Lower(old_filename)
    IN  IF Contains(low, "cfp") THEN "cfp"
        ELSE IF Contains(low, "mfca") THEN "mfca"
        ELSE IF Contains(low, "pce") THEN "pce"
        ELSE IF Contains(low, "wd") THEN "wd"
        ELSE None

\* lines 32-37: the names the loop over os.listdir can return; os.listdir of
\* a path that exists and is no directory raises
SubjectListed(dir_path, subject, exists, listing) ==
    IF exists
    THEN IF listing.raises THEN {NotADirectoryError}
         ELSE { dir_path \o "/" \o file :
                  file \in { n \in listing.names :
                               EndsWith(n, ".pdf") /\ Contains(n, Upper(subject)) } }
    ELSE {}

SubjectMatches(static, old_filename) ==
    SubjectListed(Dirname(old_filename), GuessSubject(old_filename),
                  PathExists(static, "static/" \o Dirname(old_filename)),
                  ListDir(static, "static/" \o Dirname(old_filename)))

\* lines 44-49 and 53-56: what matches[0].replace('static/', '', 1) can be
GlobMatches(static, dir_path, name) ==
    { ReplaceFirst(m, "static/", "") :
        m \in Glob(static, "static/" \o dir_path \o "/*" \o name \o "*.pdf") }

\* lines 39-58
\* first: the matches of line 45; second: those of line 54
GlobPick(base_parts, first, second) ==
    IF first # {} THEN first
    ELSE IF base_parts # <<>> /\ second # {} THEN second
    ELSE {None}

GlobSearch(static, old_filename, base_parts) ==
    GlobPick(base_parts,
             GlobMatches(static, Dirname(old_filename), Join(base_parts, "_")),
             GlobMatches(static, Dirname(old_filename),
                         IF base_parts # <<>> THEN base_parts[1] ELSE ""))

\* find_new_file(old_filename): the set of values it can return, or
\* {NotADirectoryError} when line 34 raises
\* lines 18-58: listed are the returns of the subject fallback, globbed those
\* of the glob search
FindPick(base_parts, subject, listed, globbed) ==
    IF base_parts = <<>>
    THEN IF subject = None THEN {None}
         ELSE IF NotADirectoryError \in listed THEN {NotADirectoryError}
         ELSE IF listed # {} THEN listed
         ELSE globbed
    ELSE globbed

find_new_file(static, old_filename) ==
    FindPick(BaseParts(Split(old_filename, "_")), GuessSubject(old_filename),
             SubjectMatches(static, old_filename),
             GlobSearch(static, old_filename, BaseParts(Split(old_filename, "_"))))

\* lines 66-67: group(1) of every match of href="([^"]*\.pdf)", left to right
RECURSIVE Finditer(_, _)
Finditer(s, pos) ==
    LET i == Find(s, "href=\"", pos)
        q == IF i = 0 THEN 0 ELSE Find(s, "\"", i + 6)
    IN  IF i = 0 \/ q = 0 THEN <<>>
        ELSE IF EndsWith(SubSeq(s, i + 6, q - 1), ".pdf")
        THEN <<SubSeq(s, i + 6, q - 1)>> \o Finditer(s, q + 1)
        ELSE Finditer(s, i + 1)

\* lines 72-73
StripSlash(path) == IF StartsWith(path, "/") THEN SubSeq(path, 2, Len(path)) ELSE path

\* lines 80-81
RewriteHref(content, old_path, new_path) ==
    Replace(Replace(content, "href=\"/" \o old_path \o "\"", "href=\"/" \o new_path \o "\""),
            "href=\"" \o old_path \o "\"", "href=\"/" \o new_path \o "\"")

\* lines 71-84 for one match, from the loop state st = [content, updates, log,
\* results, raised]: the set of loop states it can leave; raised says that
\* find_new_file raised (nothing catches it: the script ends there)
LoopBody(static, href, st) ==
    LET old_path == StripSlash(href)
    IN  IF PathExists(static, "static/" \o old_path)
        THEN { [st EXCEPT !.results = Append(@, [href |-> href, old_path |-> old_path,
                                                  missing |-> FALSE, new_path |-> None])] }
        ELSE { IF new_path = NotADirectoryError
               THEN [st EXCEPT !.raised = TRUE]
               ELSE IF new_path # None
               THEN [content |-> RewriteHref(st.content, old_path, new_path),
                     updates |-> st.updates + 1,
                     log |-> Append(st.log, "Updating: " \o old_path \o " -> " \o new_path),
                     results |-> Append(st.results, [href |-> href, old_path |-> old_path,
                                                      missing |-> TRUE, new_path |-> new_path]),
                     raised |-> FALSE]
               ELSE [content |-> st.content,
                     updates |-> st.updates,
                     log |-> Append(st.log, "Warning: Could not find replacement for " \o old_path),
                     results |-> Append(st.results, [href |-> href, old_path |-> old_path,
                                                      missing |-> TRUE, new_path |-> None]),
                     raised |-> FALSE]
               : new_path \in find_new_file(static, old_path) }

\* lines 70-84: the loop over the matches from the i-th on, until it ends or
\* an exception leaves it
RECURSIVE Loop(_, _, _, _)
Loop(static, matches, i, st) ==
    IF i > Len(matches) \/ st.raised THEN {st}
    ELSE UNION { Loop(static, matches, i + 1, st2) : st2 \in LoopBody(static, matches[i], st) }

\* line 86
ShouldWrite(updates) == updates > 0

HtmlFile == "templates/index.html"

(***************************************************************************)
(* State.                                                                  *)
(*   rfiles, rorder, rout, rpc : one group's "files" array, the order the   *)
(*                      loop of line 94 visits it in, the lines it appends  *)
(*   static           : the regular files under static/                      *)
(*   doc              : the text of templates/index.html                     *)
(*   rlog             : the lines the last Repairer run printed              *)
(*   written          : whether the last Repairer run wrote the document     *)
(*   rraised          : whether the last Repairer run ended in an uncaught   *)
(*                      exception (a traceback instead of the summary line)  *)
(*   results, doc0    : per match of the last run, what the loop found; the  *)
(*                      document text that run read                          *)
(*   rruns            : the Repairer runs made so far                        *)
(*   data             : data/<subj>.json per subject: its parsed value, or   *)
(*                      that the text is malformed, or that there is no file *)
(*   tfiles           : the files of templates/, name -> content             *)
(*   pc, idx, content, tmp_path : the Generator's position in its loop over  *)
(*                      sorted(data/*.json), and the locals of the iteration *)
(*   reports          : the lines the current Generator run printed          *)
(*   run              : the number of the current Generator run              *)
(*   tfiles0          : templates/ as the current run found it               *)
(*   prev             : how the previous run ended: its pc, reports, tfiles  *)
(*   outcome          : of the last completed write step (lines 119-128):    *)
(*                      the subject, the line printed, the destination       *)
(*                      before and after, whether the temp file remained     *)
(*   faults           : the OSErrors and kills that have happened            *)
(***************************************************************************)
VARIABLES rfiles, rorder, rout, rpc,
          static, doc, doc0, rlog, written, rraised, results, rruns,
          data, tfiles, pc, idx, content, tmp_path, reports, run, tfiles0, prev,
          outcome, faults

renderVars == <<rfiles, rorder, rout, rpc>>
repairVars == <<static, doc, doc0, rlog, written, rraised, results, rruns>>
genVars == <<data, tfiles, pc, idx, content, tmp_path, reports, run, tfiles0, prev,
             outcome, faults>>
vars == <<rfiles, rorder, rout, rpc, static, doc, doc0, rlog, written, rraised, results,
          rruns,
          data, tfiles, pc, idx, content, tmp_path, reports, run, tfiles0, prev,
          outcome, faults>>

File(filename, linkText, url) ==
    [filename |-> filename, linkText |-> linkText, linkTitle |-> "",
     title |-> "", url |-> url]

\* the File records a group's "files" array is drawn from
FilePool ==
    { File("2_b.pdf", "", "https://x/2_b.pdf"),
      File("10_a.pdf", "", "https://x/10_a.pdf"),
      File("no-digits.pdf", "", "https://x/no.pdf"),
      File("b3.pdf", "", "https://x/b3.pdf"),
      File("02_a.pdf", "Two & <a>", "https://x/02_a.pdf"),
      File(" 007.pdf", "", "https://x/007.pdf"),
      File("", "My File", "https://p/a b.pdf"),
      File("", "", "https://x/n.pdf") }

SeqsUpTo(S, n) == UNION {[1..k -> S] : k \in 0..n}

RenderIdle == rfiles = <<>> /\ rorder = <<>> /\ rout = <<>> /\ rpc = "idle"

RepairIdle ==
    /\ static = {} /\ doc = "" /\ doc0 = "" /\ rlog = <<>>
    /\ written = FALSE /\ rraised = FALSE /\ results = <<>> /\ rruns = 0

GenIdle ==
    /\ data = <<>> /\ tfiles = <<>> /\ pc = "idle" /\ idx = 0 /\ content = ""
    /\ tmp_path = "" /\ reports = <<>> /\ run = 0 /\ tfiles0 = <<>> /\ prev = <<>>
    /\ outcome = <<>> /\ faults = 0

InitRender ==
    /\ rfiles \in SeqsUpTo(FilePool, MaxFiles)
    /\ rorder = <<>>
    /\ rout = <<>>
    /\ rpc = "input"
    /\ RepairIdle
    /\ GenIdle

\* lines 89-101 for one group
RenderGroup ==
    /\ rpc = "input"
    /\ rorder' = files_sorted(rfiles)
    /\ rout' = FileLines(rfiles)
    /\ rpc' = "rendered"
    /\ UNCHANGED <<rfiles, repairVars, genVars>>

NextRender == RenderGroup

SpecRender == InitRender /\ [][NextRender]_vars

(***************************************************************************)
(* The Link Repairer (SpecRepair): update_html_file("templates/index.html") *)
(* run again and again over a fixed static/ tree.                          *)
(***************************************************************************)
\* the href values the document is drawn from
HrefPool ==
    { "/x/2024_UQ25abc_report.pdf",
      "/x/2024_report_final.pdf",
      "//a_UQ25.pdf",
      "/a_UQ25.pdf",
      "/UQ25x/cfp_n.pdf",
      "b_UQ25z.pdf",
      "./b2.pdf",
      "a[1]_UQ25.pdf" }

\* the files static/ is drawn from (UQ25x is a regular file)
StaticPool ==
    { "x/2024_report_final.pdf",
      "x/x/2024b.pdf",
      "d/a1.pdf",
      "UQ25x/other.pdf",
      "UQ25x/CFP1.pdf",
      "UQ25x",
      "a1.pdf",
      "b_new.pdf",
      "b2.pdf" }

\* no regular file is also a directory of another file
ValidTree(S) ==
    \A f, g \in S : f # g => ~IsPrefixSeq(Comps(f), Comps(g))

RECURSIVE MakeDoc(_)
MakeDoc(hrefs) ==
    IF hrefs = <<>> THEN ""
    ELSE "<a href=\"" \o Head(hrefs) \o "\">f</a>\n" \o MakeDoc(Tail(hrefs))

InitRepair ==
    /\ static \in {S \in SUBSET StaticPool : Cardinality(S) <= MaxStaticFiles /\ ValidTree(S)}
    /\ \E hrefs \in SeqsUpTo(HrefPool, MaxHrefs) : doc = MakeDoc(hrefs)
    /\ doc0 = doc
    /\ rlog = <<>>
    /\ written = FALSE
    /\ rraised = FALSE
    /\ results = <<>>
    /\ rruns = 0
    /\ RenderIdle
    /\ GenIdle

\* lines 60-91: the run ends with the summary line, or where find_new_file
\* raised (lines 86-91 are not reached: nothing is written)
update_html_file ==
    /\ rruns < MaxRepairerRuns
    /\ \E st \in Loop(static, Finditer(doc, 1), 1,
                      [content |-> doc, updates |-> 0, log |-> <<>>, results |-> <<>>,
                       raised |-> FALSE]) :
          /\ rraised' = st.raised
          /\ doc' = IF ~st.raised /\ ShouldWrite(st.updates) THEN st.content ELSE doc
          /\ written' = (~st.raised /\ ShouldWrite(st.updates))
          /\ rlog' = IF st.raised THEN st.log
                     ELSE Append(st.log,
                            IF ShouldWrite(st.updates)
                            THEN "Updated " \o IntToStr(st.updates) \o " links in " \o HtmlFile
                            ELSE "No updates needed for " \o HtmlFile)
          /\ results' = st.results
    /\ doc0' = doc
    /\ rruns' = rruns + 1
    /\ UNCHANGED <<static, renderVars, genVars>>

NextRepair == update_html_file

SpecRepair == InitRepair /\ [][NextRepair]_vars

(***************************************************************************)
(* The HTML Generator (SpecGen): gen-html.py run again and again over an   *)
(* unchanged data/ directory, as the only writer of templates/.  Every     *)
(* file operation of the write step is a step of its own and may raise     *)
(* OSError; the process may be killed between any two steps.               *)
(***************************************************************************)
\* the subjects, in the order sorted(DATA_DIR.glob("*.json")) yields their files
Subjects == <<"cfp", "foo-bar">>

ExampleUnits ==
    << [unit |-> [t |-> "int", v |-> 1],
        groups |-> << [type |-> [t |-> "str", v |-> "Notes"],
                       files |-> << File("2_b.pdf", "", "https://x/2_b.pdf"),
                                    File("10_a.pdf", "", "https://x/10_a.pdf"),
                                    File("no-digits.pdf", "", "https://x/no.pdf") >>] >>] >>

\* what data/<subj>.json can be
DataPool ==
    { [kind |-> "none", units |-> <<>>],          \* no such file
      [kind |-> "malformed", units |-> <<>>],     \* json.loads raises
      [kind |-> "array", units |-> <<>>],         \* valid JSON, not an object: []
      [kind |-> "object", units |-> ExampleUnits] }

\* an older output: of an earlier version of the JSON in which a file had
\* another name, or any other text
StaleContent(d, subj) ==
    IF d[subj].kind = "object"
    THEN Replace(RenderSubject(subj, d[subj]), "2_b.pdf", "2_c.pdf")
    ELSE "<details>old</details>\n"

HasJson(subj) == data[subj].kind # "none"

\* line 57
json_files == SelectSeq(Subjects, HasJson)

SubjectSet == {Subjects[i] : i \in 1..Len(Subjects)}

\* what templates/<subj>.html can be before the first run: absent, stale (when
\* data/<subj>.json is there to be read), current
DestChoices(d, subj) ==
    {"absent"}
    \cup (IF d[subj].kind \in {"malformed", "object"} THEN {"stale"} ELSE {})
    \cup (IF d[subj].kind = "object" THEN {"current"} ELSE {})

NoOutcome ==
    [run |-> 0, subj |-> "", line |-> "", rendered |-> "",
     before |-> [exists |-> FALSE, text |-> ""], after |-> [exists |-> FALSE, text |-> ""],
     tmp_left |-> FALSE, reported |-> FALSE]

InitGen ==
    /\ data \in [SubjectSet -> DataPool]
    /\ \E choice \in [SubjectSet -> {"absent", "stale", "current"}] :
          /\ \A subj \in SubjectSet : choice[subj] \in DestChoices(data, subj)
          /\ tfiles = [n \in {OutPath(subj) : subj \in {x \in SubjectSet : choice[x] # "absent"}}
                         |-> LET subj == CHOOSE x \in SubjectSet : OutPath(x) = n
                             IN  IF choice[subj] = "stale" THEN StaleContent(data, subj)
                                 ELSE RenderSubject(subj, data[subj])]
    /\ tfiles0 = tfiles
    /\ pc = "loop"
    /\ idx = 1
    /\ content = ""
    /\ tmp_path = None
    /\ reports = <<>>
    /\ run = 1
    /\ prev = [pc |-> "none", reports |-> <<>>, tfiles |-> <<>>]
    /\ outcome = NoOutcome
    /\ faults = 0
    /\ RenderIdle
    /\ RepairIdle

subj == json_files[idx]
out_path == OutPath(subj)

NextSubject == /\ idx' = idx + 1
               /\ pc' = "loop"
               /\ content' = ""
               /\ tmp_path' = None

\* line 57: the loop is exhausted, the script ends
LoopEnd ==
    /\ pc = "loop"
    /\ idx > Len(json_files)
    /\ pc' = "done"
    /\ UNCHANGED <<data, tfiles, idx, content, tmp_path, reports, run, tfiles0, prev,
                   outcome, faults, renderVars, repairVars>>

\* lines 58-61: json.loads raises on malformed JSON, or reading the file raises
\* OSError; either way the except clause of line 61 is entered
ReadJsonFails ==
    /\ pc = "loop"
    /\ idx <= Len(json_files)
    /\ \/ /\ data[subj].kind = "malformed"
          /\ UNCHANGED faults
       \/ /\ data[subj].kind # "malformed"
          /\ faults < MaxFaults
          /\ faults' = faults + 1
    /\ pc' = "skip"
    /\ UNCHANGED <<data, tfiles, idx, content, tmp_path, reports, run, tfiles0, prev,
                   outcome, renderVars, repairVars>>

\* lines 62-63: the subject is reported and skipped
ReadJsonSkip ==
    /\ pc = "skip"
    /\ reports' = Append(reports, "Skipping data/" \o subj \o ".json: invalid json")
    /\ NextSubject
    /\ UNCHANGED <<data, tfiles, run, tfiles0, prev, outcome, faults, renderVars, repairVars>>

\* lines 58-112: the JSON is read and parses; rendering raises outside every
\* try (the script dies with a traceback), or yields the content
Render ==
    /\ pc = "loop"
    /\ idx <= Len(json_files)
    /\ data[subj].kind # "malformed"
    /\ IF RenderRaises(data[subj])
       THEN /\ pc' = "crashed"
            /\ UNCHANGED content
       ELSE /\ pc' = "mkstemp"
            /\ content' = RenderSubject(subj, data[subj])
    /\ UNCHANGED <<data, tfiles, idx, tmp_path, reports, run, tfiles0, prev, outcome,
                   faults, renderVars, repairVars>>

\* line 115: a new, empty, uniquely named file
Mkstemp ==
    /\ pc = "mkstemp"
    /\ \E name \in TmpNames(subj) \ DOMAIN tfiles :
          /\ tmp_path' = name
          /\ tfiles' = FsWrite(tfiles, name, "")
    /\ pc' = "write"
    /\ UNCHANGED <<data, idx, content, reports, run, tfiles0, prev, outcome,
                   faults, renderVars, repairVars>>

\* lines 116-117: the content reaches the file in two parts
WriteFirstPart ==
    /\ pc = "write"
    /\ tfiles' = FsWrite(tfiles, WriteTarget(tmp_path, out_path),
                         SubSeq(content, 1, Len(content) \div 2))
    /\ pc' = "write2"
    /\ UNCHANGED <<data, idx, content, tmp_path, reports, run, tfiles0, prev, outcome,
                   faults, renderVars, repairVars>>

WriteRest ==
    /\ pc = "write2"
    /\ tfiles' = FsWrite(tfiles, WriteTarget(tmp_path, out_path), content)
    /\ pc' = "compare"
    /\ UNCHANGED <<data, idx, content, tmp_path, reports, run, tfiles0, prev, outcome,
                   faults, renderVars, repairVars>>

\* lines 119-121, 123, 126: which branch the write step takes
Compare ==
    /\ pc = "compare"
    /\ IF out_path \in DOMAIN tfiles
       THEN IF FileCmp(tfiles[tmp_path], tfiles[out_path])
            THEN /\ reports' = Append(reports, "Unchanged template " \o out_path)
                 /\ pc' = "remove"
            ELSE /\ pc' = "replace_updated"
                 /\ UNCHANGED reports
       ELSE /\ pc' = "replace_wrote"
            /\ UNCHANGED reports
    /\ UNCHANGED <<data, tfiles, idx, content, tmp_path, run, tfiles0, prev, outcome,
                   faults, renderVars, repairVars>>

Snapshot(fs, name) ==
    IF name \in DOMAIN fs THEN [exists |-> TRUE, text |-> fs[name]]
    ELSE [exists |-> FALSE, text |-> ""]

\* the record of a write step that ended without an error; the destination
\* before the step is the one the run found (nothing else writes it)
Outcome(line, fsAfter, printed) ==
    [run |-> run, subj |-> subj, line |-> line, rendered |-> content,
     before |-> Snapshot(tfiles0, out_path), after |-> Snapshot(fsAfter, out_path),
     tmp_left |-> tmp_path \in DOMAIN fsAfter,
     reported |-> \E i \in 1..Len(printed) : printed[i] = line]

\* line 122
RemoveTmp ==
    /\ pc = "remove"
    /\ tfiles' = FsRemove(tfiles, tmp_path)
    /\ outcome' = Outcome("Unchanged template " \o out_path, tfiles', reports)
    /\ NextSubject
    /\ UNCHANGED <<data, reports, run, tfiles0, prev, faults, renderVars, repairVars>>

\* line 124
ReplaceUpdated ==
    /\ pc = "replace_updated"
    /\ tfiles' = FsReplace(tfiles, tmp_path, out_path)
    /\ pc' = "print_updated"
    /\ UNCHANGED <<data, idx, content, tmp_path, reports, run, tfiles0, prev, outcome,
                   faults, renderVars, repairVars>>

\* line 125
PrintUpdated ==
    /\ pc = "print_updated"
    /\ reports' = Append(reports, "Updated template " \o out_path)
    /\ outcome' = Outcome("Updated template " \o out_path, tfiles, reports')
    /\ NextSubject
    /\ UNCHANGED <<data, tfiles, run, tfiles0, prev, faults, renderVars, repairVars>>

\* line 127
ReplaceWrote ==
    /\ pc = "replace_wrote"
    /\ tfiles' = FsReplace(tfiles, tmp_path, out_path)
    /\ pc' = "print_wrote"
    /\ UNCHANGED <<data, idx, content, tmp_path, reports, run, tfiles0, prev, outcome,
                   faults, renderVars, repairVars>>

\* line 128
PrintWrote ==
    /\ pc = "print_wrote"
    /\ reports' = Append(reports, "Wrote template " \o out_path)
    /\ outcome' = Outcome("Wrote template " \o out_path, tfiles, reports')
    /\ NextSubject
    /\ UNCHANGED <<data, tfiles, run, tfiles0, prev, faults, renderVars, repairVars>>

\* lines 114-128: any file operation or print of the write step raises
RaiseOSError ==
    /\ pc \in {"mkstemp", "write", "write2", "compare", "remove",
               "replace_updated", "replace_wrote", "print_updated", "print_wrote"}
    /\ faults < MaxFaults
    /\ faults' = faults + 1
    /\ pc' = "except"
    /\ UNCHANGED <<data, tfiles, idx, content, tmp_path, reports, run, tfiles0, prev,
                   outcome, renderVars, repairVars>>

\* lines 129-134: the temp file is removed if there is one (a failing removal
\* is swallowed)
Except ==
    /\ pc = "except"
    /\ \/ /\ tmp_path # None
          /\ tmp_path \in DOMAIN tfiles
          /\ \/ /\ tfiles' = FsRemove(tfiles, tmp_path)
                /\ UNCHANGED faults
             \/ /\ faults < MaxFaults
                /\ faults' = faults + 1
                /\ UNCHANGED tfiles
       \/ /\ ~(tmp_path # None /\ tmp_path \in DOMAIN tfiles)
          /\ UNCHANGED <<tfiles, faults>>
    /\ pc' = "report_failed"
    /\ UNCHANGED <<data, idx, content, tmp_path, reports, run, tfiles0, prev, outcome,
                   renderVars, repairVars>>

\* line 135: the failure is reported
ReportFailed ==
    /\ pc = "report_failed"
    /\ reports' = Append(reports, "Failed to write " \o out_path)
    /\ NextSubject
    /\ UNCHANGED <<data, tfiles, run, tfiles0, prev, outcome, faults, renderVars, repairVars>>

\* lines 62 and 135: a print inside an except clause raises; nothing catches
\* it and the script dies with a traceback
PrintRaises ==
    /\ pc \in {"skip", "report_failed"}
    /\ faults < MaxFaults
    /\ faults' = faults + 1
    /\ pc' = "crashed"
    /\ UNCHANGED <<data, tfiles, idx, content, tmp_path, reports, run, tfiles0, prev,
                   outcome, renderVars, repairVars>>

\* the process is interrupted (killed) between two steps
Kill ==
    /\ pc \in {"loop", "skip", "mkstemp", "write", "write2", "compare", "remove",
               "replace_updated", "replace_wrote", "print_updated", "print_wrote",
               "except", "report_failed"}
    /\ faults < MaxFaults
    /\ faults' = faults + 1
    /\ pc' = "killed"
    /\ UNCHANGED <<data, tfiles, idx, content, tmp_path, reports, run, tfiles0, prev,
                   outcome, renderVars, repairVars>>

\* the script is started again (lines 12-17, 46: data/ exists, templates/ exists)
StartRun ==
    /\ pc \in {"done", "crashed", "killed"}
    /\ run < MaxGeneratorRuns
    /\ prev' = [pc |-> pc, reports |-> reports, tfiles |-> tfiles]
    /\ run' = run + 1
    /\ tfiles0' = tfiles
    /\ pc' = "loop"
    /\ idx' = 1
    /\ content' = ""
    /\ tmp_path' = None
    /\ reports' = <<>>
    /\ UNCHANGED <<data, tfiles, outcome, faults, renderVars, repairVars>>

NextGen ==
    \/ LoopEnd
    \/ ReadJsonFails
    \/ ReadJsonSkip
    \/ Render
    \/ Mkstemp
    \/ WriteFirstPart
    \/ WriteRest
    \/ Compare
    \/ RemoveTmp
    \/ ReplaceUpdated
    \/ PrintUpdated
    \/ ReplaceWrote
    \/ PrintWrote
    \/ RaiseOSError
    \/ Except
    \/ ReportFailed
    \/ PrintRaises
    \/ Kill
    \/ StartRun

SpecGen == InitGen /\ [][NextGen]_vars

(***************************************************************************)
(* Claims about the rendering of a group (SpecRender).                     *)
(***************************************************************************)
Filenames(fs) == [i \in 1..Len(fs) |-> fs[i].filename]

IsPermutation(a, b) ==
    /\ Len(a) = Len(b)
    /\ \E p \in [1..Len(a) -> 1..Len(a)] :
          /\ \A i, j \in 1..Len(a) : p[i] = p[j] => i = j
          /\ \A i \in 1..Len(a) : b[i] = a[p[i]]

\* the value of the digit run at the very start of the name (the claim's reading)
C8_HasLeadingDigits(name) == name # "" /\ IsDigit(Char(name, 1))
C8_LeadingValue(name) ==
    LET ends == {q \in 1..Len(name) : \A k \in 1..q : IsDigit(Char(name, k))}
    IN  StrToInt(SubSeq(name, 1, CHOOSE q \in ends : \A r \in ends : r <= q))

\* the value of the first run of digits anywhere in the name, 10^9 without digits
C8_FirstRunValue(name) ==
    LET ds == {k \in 1..Len(name) : IsDigit(Char(name, k))}
    IN  IF ds = {} THEN 1000000000
        ELSE LET p == CHOOSE k \in ds : \A m \in ds : k <= m
                 ends == {q \in p..Len(name) : \A k \in p..q : k \in ds}
             IN  StrToInt(SubSeq(name, p, CHOOSE q \in ends : \A r \in ends : r <= q))

\* C8 as stated: files are rendered in ascending order of the value of their
\* leading digit run, ties by filename, and every file without leading digits
\* comes after all files that have them.
C8_Original ==
    rpc = "rendered" =>
        \A i, j \in 1..Len(rorder) :
            i < j =>
                LET a == rorder[i].filename
                    b == rorder[j].filename
                IN  /\ ~(~C8_HasLeadingDigits(a) /\ C8_HasLeadingDigits(b))
                    /\ (C8_HasLeadingDigits(a) /\ C8_HasLeadingDigits(b)) =>
                          \/ C8_LeadingValue(a) < C8_LeadingValue(b)
                          \/ /\ C8_LeadingValue(a) = C8_LeadingValue(b)
                             /\ ~StrLess(b, a)

\* C8 amended: the rendered items are the group's files in ascending order of
\* the value of the first run of digits found anywhere in the filename (10^9
\* when the filename has no digit or is empty), ties in ascending filename
\* order; 2_b.pdf, 10_a.pdf, no-digits.pdf render in that order whatever the
\* input order.
C8_FileOrder ==
    rpc = "rendered" =>
        /\ IsPermutation(rfiles, rorder)
        /\ Len(rout) = Len(rorder)
        /\ \A i \in 1..Len(rorder) : rout[i] = FileLine(rorder[i])
        /\ \A i, j \in 1..Len(rorder) :
              i < j =>
                  LET a == rorder[i].filename
                      b == rorder[j].filename
                  IN  \/ C8_FirstRunValue(a) < C8_FirstRunValue(b)
                      \/ /\ C8_FirstRunValue(a) = C8_FirstRunValue(b)
                         /\ ~StrLess(b, a)
        /\ IsPermutation(Filenames(rfiles), <<"2_b.pdf", "10_a.pdf", "no-digits.pdf">>)
              => Filenames(rorder) = <<"2_b.pdf", "10_a.pdf", "no-digits.pdf">>

C8_Witness ==
    /\ rpc = "rendered"
    /\ Filenames(rfiles) = <<"no-digits.pdf", "10_a.pdf", "2_b.pdf">>
    /\ Filenames(rorder) = <<"2_b.pdf", "10_a.pdf", "no-digits.pdf">>

\* the text of the href attribute of a rendered item, as written to the output
C9_HrefText(line) ==
    LET a == Find(line, "href=\"", 1) + 6
        b == Find(line, "\"", a)
    IN  SubSeq(line, a, b - 1)

\* C9 as stated: the href written to the output is '/pdf-viewer/?file=' + the
\* percent-encoded url, + '&title=' + the percent-encoded link text exactly
\* when the link text is non-empty.
C9_Original ==
    rpc = "rendered" =>
        \A i \in 1..Len(rout) :
            C9_HrefText(rout[i]) =
                "/pdf-viewer/?file=" \o quote(rorder[i].url)
                \o (IF link_text(rorder[i]) # ""
                    THEN "&title=" \o quote(link_text(rorder[i])) ELSE "")

\* C9 amended: the href attribute text written to the output is
\* '/pdf-viewer/?file=' + the percent-encoded url, followed exactly when the link
\* text is non-empty by '&amp;title=' (the HTML-escaped '&title=') + the
\* percent-encoded link text; url "https://p/a b.pdf" with linkText "My File"
\* is written as /pdf-viewer/?file=https%3A%2F%2Fp%2Fa%20b.pdf&amp;title=My%20File.
C9_ViewerHref ==
    rpc = "rendered" =>
        /\ Len(rout) = Len(rorder)
        /\ \A i \in 1..Len(rout) :
              /\ C9_HrefText(rout[i]) =
                    "/pdf-viewer/?file=" \o quote(rorder[i].url)
                    \o (IF link_text(rorder[i]) # ""
                        THEN "&amp;title=" \o quote(link_text(rorder[i])) ELSE "")
              /\ (rorder[i].url = "https://p/a b.pdf" /\ rorder[i].linkText = "My File")
                    => C9_HrefText(rout[i]) =
                          "/pdf-viewer/?file=https%3A%2F%2Fp%2Fa%20b.pdf&amp;title=My%20File"

C9_Witness ==
    /\ rpc = "rendered"
    /\ \E i \in 1..Len(rout) :
          /\ rorder[i].url = "https://p/a b.pdf"
          /\ rorder[i].linkText = "My File"
          /\ rout[i] = "                <li><a href=\"/pdf-viewer/?file=https%3A%2F%2Fp%2Fa%20b.pdf&amp;title=My%20File\">My File</a></li>"
    /\ \E i \in 1..Len(rout) : link_text(rorder[i]) = ""

(***************************************************************************)
(* Claims about the Link Repairer (SpecRepair).                            *)
(***************************************************************************)
Range(f) == {f[i] : i \in DOMAIN f}

\* the last component of a path
Basename(path) == PathSplit(path)[2]

\* the meaningful base name of the claims: the '_'-separated segments of the
\* file name before the first segment starting with UQ25, joined by '_'
MeaningfulBase(path) == Join(BaseParts(Split(Basename(path), "_")), "_")

\* the .pdf files of the directory of path whose name contains sub
PdfSiblingsContaining(path, sub) ==
    { f \in static :
        /\ Comps(f) # <<>>
        /\ SubSeq(Comps(f), 1, Len(Comps(f)) - 1) = Comps(Dirname(path))
        /\ EndsWith(Basename(f), ".pdf")
        /\ Contains(Basename(f), sub) }

\* C5: a missing href with a directory component whose directory holds a .pdf
\* containing the meaningful base name is rewritten to such a file; the href
\* /x/2024_UQ25abc_report.pdf, with static/x/2024_report_final.pdf on disk, is
\* rewritten to /x/2024_report_final.pdf.
C5_RenamedFileRewritten ==
    rruns >= 1 =>
        \A i \in 1..Len(results) :
            LET r == results[i]
            IN  /\ ( /\ r.missing
                     /\ Dirname(r.old_path) # ""
                     /\ MeaningfulBase(r.old_path) # ""
                     /\ PdfSiblingsContaining(r.old_path, MeaningfulBase(r.old_path)) # {} )
                   => /\ r.new_path \in
                            PdfSiblingsContaining(r.old_path, MeaningfulBase(r.old_path))
                      /\ Finditer(doc, 1)[i] = "/" \o r.new_path
                /\ ( /\ r.old_path = "x/2024_UQ25abc_report.pdf"
                     /\ "x/2024_report_final.pdf" \in static )
                   => Finditer(doc, 1)[i] = "/x/2024_report_final.pdf"

\* C6: the run writes the document if and only if it found at least one
\* replacement; when every PDF href names an existing file, the run does not
\* write, the text is unchanged and "No updates needed" is all it reports.
C6_WriteIffReplacement ==
    rruns >= 1 =>
        /\ written <=> (\E i \in 1..Len(rlog) : StartsWith(rlog[i], "Updating: "))
        /\ written <=> (\E i \in 1..Len(results) : results[i].new_path # None)
        /\ written => rlog[Len(rlog)] =
                         "Updated " \o IntToStr(Cardinality({i \in 1..Len(results) :
                                                   results[i].new_path # None}))
                         \o " links in templates/index.html"
        /\ ~written => doc = doc0
        /\ (\A i \in 1..Len(Finditer(doc0, 1)) :
                PathExists(static, "static/" \o StripSlash(Finditer(doc0, 1)[i])))
              => /\ ~written
                 /\ doc = doc0
                 /\ rlog = <<"No updates needed for templates/index.html">>

\* C7: every missing href for which find_new_file returns no replacement gets a
\* warning line and is, in the final text, identical to the original, whatever
\* other hrefs of the document were rewritten.
C7_UnresolvedUntouched ==
    rruns >= 1 =>
        \A i \in 1..Len(results) :
            (results[i].missing /\ results[i].new_path = None) =>
                /\ ("Warning: Could not find replacement for " \o results[i].old_path)
                      \in Range(rlog)
                /\ Len(Finditer(doc, 1)) = Len(results)
                /\ Finditer(doc, 1)[i] = results[i].href

\* C10: for a missing href whose path starts with the UQ25 marker, find_new_file
\* returns no replacement or a .pdf of the href's own directory whose name
\* contains the upper-cased guessed subject code; it returns no replacement
\* when no subject code is guessed or no such file is listed.
C10_SubjectFallback ==
    rruns >= 1 =>
        \A i \in 1..Len(results) :
            LET r == results[i]
                code == Upper(GuessSubject(r.old_path))
                listed == { Dirname(r.old_path) \o "/" \o Basename(f) :
                              f \in PdfSiblingsContaining(r.old_path, code) }
            IN  (r.missing /\ StartsWith(r.old_path, "UQ25")) =>
                    IF GuessSubject(r.old_path) = None \/ listed = {}
                    THEN r.new_path = None
                    ELSE r.new_path \in listed

(***************************************************************************)
(* Claims about the HTML Generator (SpecGen).                              *)
(***************************************************************************)
Printed(lines, line) == \E i \in 1..Len(lines) : lines[i] = line

WrittenBy(lines, s) ==
    \/ Printed(lines, "Wrote template " \o OutPath(s))
    \/ Printed(lines, "Updated template " \o OutPath(s))
    \/ Printed(lines, "Unchanged template " \o OutPath(s))

\* C1 as stated: after two complete runs over unchanged input in which no file
\* operation failed, the output files are those the first run left and the
\* second run printed "Unchanged template" for every JSON file of data/.
C1_Original ==
    (run = 2 /\ pc = "done" /\ prev.pc = "done" /\ faults = 0) =>
        /\ tfiles = prev.tfiles
        /\ \A s \in SubjectSet :
              HasJson(s) => Printed(reports, "Unchanged template " \o OutPath(s))

\* the current run is past the subject s
Processed(s) == \E i \in 1..Len(json_files) : i < idx /\ json_files[i] = s

\* C1 amended: when the Generator is run again over unchanged input (no other
\* writer), every output file the previous run wrote, updated or found unchanged
\* stays byte-identical, and the later run reports "Unchanged template" (and
\* neither "Updated" nor "Wrote") for each such subject it gets past, unless
\* reading its JSON file or its write step raises an error in that run (then it
\* reports "Skipping" or "Failed to write"); a malformed JSON file is reported
\* "Skipping" by both runs instead, so "Unchanged" is not reported for every
\* JSON file of data/.
C1_Idempotence ==
    run >= 2 =>
        \A s \in SubjectSet :
            /\ WrittenBy(prev.reports, s) =>
                  /\ OutPath(s) \in DOMAIN prev.tfiles
                  /\ OutPath(s) \in DOMAIN tfiles
                  /\ tfiles[OutPath(s)] = prev.tfiles[OutPath(s)]
                  /\ ~Printed(reports, "Updated template " \o OutPath(s))
                  /\ ~Printed(reports, "Wrote template " \o OutPath(s))
                  /\ (Processed(s)
                        /\ ~Printed(reports, "Failed to write " \o OutPath(s))
                        /\ ~Printed(reports, "Skipping data/" \o s \o ".json: invalid json"))
                     => Printed(reports, "Unchanged template " \o OutPath(s))
            /\ (data[s].kind = "malformed" /\ pc = "done" /\ prev.pc = "done") =>
                  /\ Printed(prev.reports, "Skipping data/" \o s \o ".json: invalid json")
                  /\ Printed(reports, "Skipping data/" \o s \o ".json: invalid json")
                  /\ ~WrittenBy(reports, s)

C1_Witness ==
    /\ run = 2
    /\ pc = "done"
    /\ prev.pc = "done"
    /\ prev.reports = << "Wrote template templates/cfp.html",
                         "Updated template templates/foo-bar.html" >>
    /\ reports = << "Unchanged template templates/cfp.html",
                    "Unchanged template templates/foo-bar.html" >>
    /\ tfiles = prev.tfiles

\* C2: at every step of a run, also one that fails or is interrupted, the
\* destination templates/<subject>.html is absent, or holds the complete content
\* the run found there, or holds the complete newly rendered content.
C2_AtomicVisibility ==
    \A s \in SubjectSet :
        \/ OutPath(s) \notin DOMAIN tfiles
        \/ /\ OutPath(s) \in DOMAIN tfiles0
           /\ tfiles[OutPath(s)] = tfiles0[OutPath(s)]
        \/ /\ data[s].kind = "object"
           /\ tfiles[OutPath(s)] = RenderSubject(s, data[s])

\* a run killed while half of the new content is in the temp file and the
\* destination still holds the older output
C2_Witness ==
    /\ pc = "killed"
    /\ tmp_path # None
    /\ tmp_path \in DOMAIN tfiles
    /\ tfiles[tmp_path] = SubSeq(content, 1, Len(content) \div 2)
    /\ tfiles[tmp_path] # ""
    /\ tfiles[tmp_path] # content
    /\ out_path \in DOMAIN tfiles
    /\ tfiles[out_path] = StaleContent(data, subj)

\* C3: a write step that raises no error ends in exactly one of three ways,
\* decided by the destination before it: identical -> not replaced, "Unchanged";
\* different -> replaced, "Updated"; absent -> created, "Wrote".  Afterwards the
\* destination holds the rendered content and the temp file is gone.
C3_WriteOutcome ==
    outcome # NoOutcome =>
        LET o == outcome
            out == OutPath(o.subj)
        IN  /\ data[o.subj].kind = "object"
            \* the recorded content is the rendering of the subject's JSON
            \* (the record never changes: compared when the write step ends)
            /\ (pc = "loop" /\ idx > 1 /\ o.run = run /\ json_files[idx - 1] = o.subj)
                  => o.rendered = RenderSubject(o.subj, data[o.subj])
            /\ o.reported
            /\ o.line \in {"Unchanged template " \o out, "Updated template " \o out,
                           "Wrote template " \o out}
            /\ (o.line = "Unchanged template " \o out)
                  <=> (o.before.exists /\ o.before.text = o.rendered)
            /\ (o.line = "Updated template " \o out)
                  <=> (o.before.exists /\ o.before.text # o.rendered)
            /\ (o.line = "Wrote template " \o out) <=> ~o.before.exists
            /\ o.after = [exists |-> TRUE, text |-> o.rendered]
            /\ ~o.tmp_left

\* the destination held an older output of the same size and was replaced
C3_Witness ==
    /\ outcome # NoOutcome
    /\ outcome.line = "Updated template templates/cfp.html"
    /\ outcome.before.exists
    /\ Len(outcome.before.text) = Len(outcome.rendered)
    /\ outcome.before.text # outcome.rendered
    /\ tfiles["templates/cfp.html"] = outcome.rendered
    /\ DOMAIN tfiles \subseteq {OutPath(s) : s \in SubjectSet}

\* C4: an exception while a subject is parsed, rendered or written never ends
\* the run: when the script ends, every JSON file whose own processing did not
\* raise outside the write step has been reported, and a subject whose write
\* step failed has its destination as the run found it and no temp file left.
C4_Isolation ==
    pc \in {"done", "crashed"} =>
        \A s \in SubjectSet :
            /\ data[s].kind \in {"malformed", "object"} =>
                  \/ Printed(reports, "Skipping data/" \o s \o ".json: invalid json")
                  \/ Printed(reports, "Failed to write " \o OutPath(s))
                  \/ WrittenBy(reports, s)
            /\ (Printed(reports, "Failed to write " \o OutPath(s))
                  /\ ~WrittenBy(reports, s)) =>
                  /\ Snapshot(tfiles, OutPath(s)) = Snapshot(tfiles0, OutPath(s))
                  /\ TmpNames(s) \cap DOMAIN tfiles \subseteq DOMAIN tfiles0

=============================================================================
